---- MODULE Spec2Model ----
(***************************************************************************)
(* GoDebtBotTg: the per-chat conversation state machine of main.go and the *)
(* SQLite ledger (tables debtors and debts) it manipulates.                *)
(*                                                                         *)
(* One event (a command, a free text, a button press) is handled at a time *)
(* (main's loop over the updates channel).  A handler is modelled as a     *)
(* function from the memory before the event to the memory after it; the   *)
(* memory is the record Mem below.                                         *)
(***************************************************************************)
EXTENDS Integers, FiniteSets, Sequences, TLC

\* ------------------------------------------------------------------ bounds
\* ids the AUTOINCREMENT counters may hand out in a run
MaxDebtors == 2
MaxDebts == 2

\* ------------------------------------------------------------------ inputs
Chats == {1, 2}
\* Free texts a chat sends (a command is no free text: main routes it away).
\* What a chat types depends on what it was asked: a name, a reason (or a
\* sticker, whose Text is empty), an amount (two valid ones, one that does not
\* parse, one that is not positive, two that parse to no finite number), a
\* date (one valid, one not), or anything when it was asked nothing.
Names == {"Al", "Bo"}
Reasons == {"lunch", "taxi", ""}
AmountTexts == {"1", "2", "abc", "0", "NaN", "Inf"}
DateTexts == {"1.2.24", "abc"}
OtherTexts == {"abc"}
Texts == Names \cup Reasons \cup AmountTexts \cup DateTexts \cup OtherTexts
Commands == {"start", "add", "debts", "help", "exportcsv", "unknown"}

\* ------------------------------------------------------------------ float64
\* Amounts are float64.  Finite values are modelled by integers; the two
\* infinities and NaN have the codes below, the infinities in the order of the
\* finite values (NegInf < every finite value < PosInf).
PosInf == 1000000
NegInf == 0 - 1000000
NaN == 0 - 2000000

IsNaN(x) == x = NaN
\* x > y of float64: false when either side is NaN
FGt(x, y) == ~IsNaN(x) /\ ~IsNaN(y) /\ x > y
\* x <= y of float64: false when either side is NaN
FLe(x, y) == ~IsNaN(x) /\ ~IsNaN(y) /\ x <= y
\* x + y of float64
FAdd(x, y) ==
    IF IsNaN(x) \/ IsNaN(y) THEN NaN
    ELSE IF x = PosInf THEN (IF y = NegInf THEN NaN ELSE PosInf)
    ELSE IF x = NegInf THEN (IF y = PosInf THEN NaN ELSE NegInf)
    ELSE IF y = PosInf THEN PosInf
    ELSE IF y = NegInf THEN NegInf
    ELSE x + y
\* x - y of float64
FSub(x, y) ==
    IF IsNaN(x) \/ IsNaN(y) THEN NaN
    ELSE IF x = PosInf THEN (IF y = PosInf THEN NaN ELSE PosInf)
    ELSE IF x = NegInf THEN (IF y = NegInf THEN NaN ELSE NegInf)
    ELSE IF y = PosInf THEN NegInf
    ELSE IF y = NegInf THEN PosInf
    ELSE x - y

\* strconv.ParseFloat(text, 64) on the texts of the model: <<ok, value>>
ParseFloat(text) ==
    CASE text = "0" -> <<TRUE, 0>>
      [] text = "1" -> <<TRUE, 1>>
      [] text = "2" -> <<TRUE, 2>>
      [] text = "3" -> <<TRUE, 3>>
      [] text = "-1" -> <<TRUE, 0 - 1>>
      [] text = "Inf" -> <<TRUE, PosInf>>
      [] text = "NaN" -> <<TRUE, NaN>>
      [] OTHER -> <<FALSE, 0>>

\* the loop over the eight layouts of time.Parse: <<ok, day number>>.
\* "01.02.2024" matches the first layout, "1.2.24" the fourth; both are the
\* first of February 2024.
ParseDate(text) ==
    CASE text = "01.02.2024" -> <<TRUE, 20240201>>
      [] text = "1.2.24" -> <<TRUE, 20240201>>
      [] text = "2.2.24" -> <<TRUE, 20240202>>
      [] OTHER -> <<FALSE, 0>>

\* ------------------------------------------------------------------ data
NullTime == [Valid |-> FALSE, Time |-> 0]
NullFloat64 == [Valid |-> FALSE, Float64 |-> 0]

\* the zero value of Debtor and of Debt (what a Go map yields for a missing key)
ZeroDebtor ==
    [ID |-> 0, Name |-> "", ChatID |-> 0,
     PaymentDate |-> NullTime, PaymentAmount |-> NullFloat64]
ZeroDebt == [ID |-> 0, DebtorID |-> 0, Amount |-> 0, Reason |-> ""]

StateIdle == "Idle"
StateAddingDebtorName == "AddingDebtorName"
StateAddingDebtReason == "AddingDebtReason"
StateAddingDebtAmount == "AddingDebtAmount"
StateEditingChooseWhatToEdit == "EditingChooseWhatToEdit"
StateEditingAmount == "EditingAmount"
StateEditingReason == "EditingReason"
StateConfirmingCloseDebt == "ConfirmingCloseDebt"
StateSubtractingFromDebt == "SubtractingFromDebt"
StateConfirmingDeleteDebtor == "ConfirmingDeleteDebtor"
StateSettingPaymentDate == "SettingPaymentDate"
StateSettingPaymentAmount == "SettingPaymentAmount"
StateEditingPaymentDate == "EditingPaymentDate"
StateEditingPaymentAmount == "EditingPaymentAmount"

\* sql.Open("sqlite3", "./debt_tracker.db"): the connection string sets no
\* _foreign_keys and no PRAGMA foreign_keys is ever executed, so SQLite keeps
\* its default: foreign keys are declared but not enforced.
ForeignKeys == FALSE

VARIABLES
    debtors,        \* rows of table debtors
    debts,          \* rows of table debts
    seqDebtors,     \* AUTOINCREMENT counter of debtors (last id handed out)
    seqDebts,       \* AUTOINCREMENT counter of debts
    userStates,     \* chat -> conversation state (a missing key reads StateIdle)
    currentDebtors, \* chat -> {} (no key) or {Debtor}: see Focus
    selectedDebts,  \* chat -> {} (no key) or {Debt}
    shown,          \* chat -> the buttons rendered to the chat so far
    ev,             \* the last event and what handling it did
    script,         \* chat -> how far its last events follow /add, name, reason
    pending         \* the name text whose handler is between its lookup and its insert

vars == <<debtors, debts, seqDebtors, seqDebts, userStates, currentDebtors,
          selectedDebts, shown, ev, script, pending>>

\* the memory a handler works on
Mem ==
    [debtors |-> debtors, debts |-> debts,
     seqDebtors |-> seqDebtors, seqDebts |-> seqDebts,
     userStates |-> userStates, currentDebtors |-> currentDebtors,
     selectedDebts |-> selectedDebts, shown |-> shown,
     failed |-> FALSE, view |-> 0, total |-> 0]

\* The copy of a debtor row kept in currentDebtors.  The handlers read its ID
\* and its Name only, so the copy of the two payment columns is left out.
Focus(debtor) ==
    [ID |-> debtor.ID, Name |-> debtor.Name, ChatID |-> debtor.ChatID,
     PaymentDate |-> NullTime, PaymentAmount |-> NullFloat64]

\* currentDebtors[chatID] and selectedDebts[chatID] as Go reads them
CurDebtor(s, c) ==
    IF s.currentDebtors[c] = {} THEN ZeroDebtor
    ELSE CHOOSE d \in s.currentDebtors[c] : TRUE
SelDebt(s, c) ==
    IF s.selectedDebts[c] = {} THEN ZeroDebt
    ELSE CHOOSE d \in s.selectedDebts[c] : TRUE

\* the three maps emptied for every chat
clearUserStateAll(s, c) ==
    [s EXCEPT !.userStates = [o \in Chats |-> StateIdle],
              !.currentDebtors = [o \in Chats |-> {}],
              !.selectedDebts = [o \in Chats |-> {}]]

\* clearUserState without its delete(selectedDebts, chatID)
clearUserStateKeepDebt(s, c) ==
    [s EXCEPT !.userStates[c] = StateIdle,
              !.currentDebtors[c] = {}]

clearUserState(s, c) ==
    [s EXCEPT !.userStates[c] = StateIdle,
              !.currentDebtors[c] = {},
              !.selectedDebts[c] = {}]

\* a store call that failed (the handler saw err != nil from the driver)
Failed(s) == [s EXCEPT !.failed = TRUE]

\* ------------------------------------------------------------------ ledger
\* A query yields the set of rows it selects: {} is sql.ErrNoRows.
\* A statement yields [err, mem]: err is "nil" or the error text.

\* the lookup by name without its chat_id = ?
getDebtorByNameAnyChat(s, name, chatID) ==
    {d \in s.debtors : d.Name = name}

getDebtorByName(s, name, chatID) ==
    {d \in s.debtors : d.Name = name /\ d.ChatID = chatID}

getDebtorByID(s, id) == {d \in s.debtors : d.ID = id}

listDebtors(s, chatID) == {d \in s.debtors : d.ChatID = chatID}

listDebts(s, debtorID) == {d \in s.debts : d.DebtorID = debtorID}

getDebtByID(s, debtID) == {d \in s.debts : d.ID = debtID}

\* a table debtors without its UNIQUE(name, chat_id)
NoUniqueIndex(s, name, chatID) == FALSE

\* UNIQUE(name, chat_id) of table debtors
UniqueViolation(s, name, chatID) ==
    \E d \in s.debtors : d.Name = name /\ d.ChatID = chatID

\* the number of rows taken for the id of the inserted debtor
LastInsertIdOfCount(s) == Cardinality(s.debtors)

\* the id result.LastInsertId() reports for the inserted debtor
LastInsertId(s) == s.seqDebtors

\* INSERT OR REPLACE in place of INSERT: the row in the way is replaced
addDebtorOrReplace(s, debtor) ==
    LET id == s.seqDebtors + 1
        row == [ID |-> id, Name |-> debtor.Name, ChatID |-> debtor.ChatID,
                PaymentDate |-> NullTime, PaymentAmount |-> NullFloat64]
        kept == {d \in s.debtors : d.Name # debtor.Name \/ d.ChatID # debtor.ChatID}
    IN [err |-> "nil", debtor |-> [debtor EXCEPT !.ID = id],
        mem |-> [s EXCEPT !.debtors = kept \cup {row}, !.seqDebtors = id]]

addDebtor(s, debtor) ==
    IF UniqueViolation(s, debtor.Name, debtor.ChatID)
    THEN [err |-> "debtor already exists", debtor |-> debtor, mem |-> s]
    ELSE LET id == s.seqDebtors + 1
             row == [ID |-> id, Name |-> debtor.Name, ChatID |-> debtor.ChatID,
                     PaymentDate |-> NullTime, PaymentAmount |-> NullFloat64]
             s1 == [s EXCEPT !.debtors = @ \cup {row}, !.seqDebtors = id]
         IN [err |-> "nil", debtor |-> [debtor EXCEPT !.ID = LastInsertId(s1)],
             mem |-> s1]

\* FOREIGN KEY (debtor_id) REFERENCES debtors (id), when enforced
ForeignKeyViolation(s, debtorID) ==
    ForeignKeys /\ getDebtorByID(s, debtorID) = {}

\* amount REAL NOT NULL: SQLite binds a NaN as NULL
NotNullViolation(amount) == IsNaN(amount)

addDebt(s, debt) ==
    IF NotNullViolation(debt.Amount) \/ ForeignKeyViolation(s, debt.DebtorID)
    THEN [err |-> "constraint failed", mem |-> Failed(s)]
    ELSE LET id == s.seqDebts + 1
             row == [ID |-> id, DebtorID |-> debt.DebtorID,
                     Amount |-> debt.Amount, Reason |-> debt.Reason]
         IN [err |-> "nil",
             mem |-> [s EXCEPT !.debts = @ \cup {row}, !.seqDebts = id]]

updateDebtAmount(s, debtID, newAmount) ==
    IF NotNullViolation(newAmount) /\ getDebtByID(s, debtID) # {}
    THEN [err |-> "constraint failed", mem |-> Failed(s)]
    ELSE [err |-> "nil",
          mem |-> [s EXCEPT !.debts =
                     {IF d.ID = debtID THEN [d EXCEPT !.Amount = newAmount] ELSE d
                        : d \in @}]]

updateDebtReason(s, debtID, newReason) ==
    [err |-> "nil",
     mem |-> [s EXCEPT !.debts =
                {IF d.ID = debtID THEN [d EXCEPT !.Reason = newReason] ELSE d
                   : d \in @}]]

closeDebt(s, debtID) ==
    [err |-> "nil", mem |-> [s EXCEPT !.debts = {d \in @ : d.ID # debtID}]]

\* ON DELETE CASCADE of debts.debtor_id acts only when foreign keys are enforced
CascadeDebts(rows, debtorID) ==
    IF ForeignKeys THEN {d \in rows : d.DebtorID # debtorID} ELSE rows

deleteDebtor(s, debtorID) ==
    [err |-> "nil",
     mem |-> [s EXCEPT !.debtors = {d \in @ : d.ID # debtorID},
                       !.debts = CascadeDebts(@, debtorID)]]

updateDebtorPaymentDate(s, debtorID, paymentDate) ==
    [err |-> "nil",
     mem |-> [s EXCEPT !.debtors =
                {IF d.ID = debtorID
                    THEN [d EXCEPT !.PaymentDate = [Valid |-> TRUE, Time |-> paymentDate]]
                    ELSE d : d \in @}]]

\* payment_amount REAL is nullable: a NaN is stored as NULL
updateDebtorPaymentAmount(s, debtorID, paymentAmount) ==
    [err |-> "nil",
     mem |-> [s EXCEPT !.debtors =
                {IF d.ID = debtorID
                    THEN [d EXCEPT !.PaymentAmount =
                            IF IsNaN(paymentAmount) THEN NullFloat64
                            ELSE [Valid |-> TRUE, Float64 |-> paymentAmount]]
                    ELSE d : d \in @}]]

\* both payment columns set to NULL by the one statement
clearDebtorPaymentBoth(s, debtorID) ==
    [err |-> "nil",
     mem |-> [s EXCEPT !.debtors =
                {IF d.ID = debtorID
                    THEN [d EXCEPT !.PaymentDate = NullTime, !.PaymentAmount = NullFloat64]
                    ELSE d : d \in @}]]

clearDebtorPaymentDate(s, debtorID) ==
    [err |-> "nil",
     mem |-> [s EXCEPT !.debtors =
                {IF d.ID = debtorID THEN [d EXCEPT !.PaymentDate = NullTime] ELSE d
                   : d \in @}]]

clearDebtorPaymentAmount(s, debtorID) ==
    [err |-> "nil",
     mem |-> [s EXCEPT !.debtors =
                {IF d.ID = debtorID THEN [d EXCEPT !.PaymentAmount = NullFloat64] ELSE d
                   : d \in @}]]

\* The f-th store call of an event fails in the driver (disk, lock), f = 0: none.
\* Exec(s, f, i, r): the outcome of the i-th call, whose outcome on a working
\* store is r.
Exec(s, f, i, r) ==
    IF f = i THEN [err |-> "store unavailable", mem |-> Failed(s)] ELSE r

\* ------------------------------------------------------------------ buttons
\* A button: the callback data (kind and id) and, for the model only, the
\* debtor whose rendered view the keyboard descends from (0: the debtor list).
Btn(kind, id, on) == [kind |-> kind, id |-> id, on |-> on]

\* shown records the buttons of the debtor list and of the debtor views.  The
\* keyboards a button opens in place of its message (confirm / cancel, the
\* edit choice) are not recorded: see Pressable.
Show(s, c, buttons) == [s EXCEPT !.shown[c] = @ \cup buttons]

\* the keyboard that pressing button b opens
Opens(b) ==
    CASE b.kind = "close_debt" ->
           {Btn("confirm_close", b.id, b.on), Btn("cancel_operation", 0, b.on)}
      [] b.kind = "edit_debt" ->
           {Btn("edit_amount", b.id, b.on), Btn("edit_reason", b.id, b.on),
            Btn("subtract_from_debt", b.id, b.on)}
      [] b.kind = "delete_debtor" ->
           {Btn("confirm_delete_debtor", 0, b.on), Btn("cancel_operation", 0, b.on)}
      [] OTHER -> {}

\* The buttons a chat can press: Telegram keeps every message with its
\* keyboard, and a list or a view can be requested any number of times, so a
\* button stays pressable once rendered; the keyboard a button opens can be
\* opened (and kept) at the moment the button is rendered.
Pressable(c) == shown[c] \cup UNION {Opens(b) : b \in shown[c]}

\* the keyboard showDebtorDetails builds
ViewButtons(s, debtor) ==
    LET D == debtor.ID IN
    {Btn("edit_debt", k.ID, D) : k \in listDebts(s, D)}
    \cup {Btn("close_debt", k.ID, D) : k \in listDebts(s, D)}
    \cup (IF debtor.PaymentDate.Valid
          THEN {Btn("edit_payment_date", 0, D), Btn("clear_payment_date", 0, D)}
          ELSE {Btn("set_payment_date", 0, D)})
    \cup (IF debtor.PaymentAmount.Valid
          THEN {Btn("edit_payment_amount", 0, D), Btn("clear_payment_amount", 0, D)}
          ELSE {Btn("set_payment_amount", 0, D)})
    \cup {Btn("add_debt_to_existing", 0, D), Btn("delete_debtor", 0, D)}

\* the total taken as the amount of one debt of the list
TotalDebtAssigned(rows) ==
    IF rows = {} THEN 0 ELSE (CHOOSE d \in rows : TRUE).Amount

\* totalDebt of showDebtorDetails: from 0, += debt.Amount for each debt listed
RECURSIVE TotalDebt(_)
TotalDebt(rows) ==
    IF rows = {} THEN 0
    ELSE LET debt == CHOOSE d \in rows : \A o \in rows : o.ID <= d.ID
         IN FAdd(TotalDebt(rows \ {debt}), debt.Amount)

\* showDebtorDetails, its two queries being store calls i and i+1 of the event
showDebtorDetails(s, c, debtorID, f, i) ==
    IF f = i THEN Failed(s)
    ELSE IF getDebtorByID(s, debtorID) = {} THEN s
    ELSE LET debtor == CHOOSE d \in getDebtorByID(s, debtorID) : TRUE
             s1 == [s EXCEPT !.currentDebtors[c] = {Focus(debtor)}]
         IN IF f = i + 1 THEN Failed(s1)
            ELSE [Show(s1, c, ViewButtons(s1, debtor))
                    EXCEPT !.view = debtorID,
                           !.total = TotalDebt(listDebts(s1, debtorID))]

\* ------------------------------------------------------------------ commands
handleStartCommand(s, c) == clearUserState(s, c)

\* /add without its clearUserState
handleAddCommandKeep(s, c) == [s EXCEPT !.userStates[c] = StateAddingDebtorName]

handleAddCommand(s, c) ==
    [clearUserState(s, c) EXCEPT !.userStates[c] = StateAddingDebtorName]

\* listDebtors is call 1; the listDebts of each row only fills a label
handleDebtsCommand(s, c, f) ==
    LET s1 == clearUserState(s, c) IN
    IF f = 1 THEN Failed(s1)
    ELSE LET rows == listDebtors(s1, c)
             s2 == IF f \in 2..(Cardinality(rows) + 1) THEN Failed(s1) ELSE s1
         IN Show(s2, c, {Btn("select_debtor", d.ID, 0) : d \in rows})

handleHelpCommand(s, c) == clearUserState(s, c)

\* generateCSV only reads: listDebtors, then listDebts of each row
handleExportCSVCommand(s, c, f) ==
    LET s1 == clearUserState(s, c) IN
    IF f = 1 THEN Failed(s1)
    ELSE IF f \in 2..(Cardinality(listDebtors(s1, c)) + 1) THEN Failed(s1)
    ELSE s1

\* main's default branch for a command it does not know
handleUnknownCommand(s, c) == clearUserState(s, c)

\* ------------------------------------------------------------------ free text
\* `err != nil || amount <= 0` of the amount-accepting states
InvalidAmount(text) ==
    \/ ~ParseFloat(text)[1]
    \/ FLe(ParseFloat(text)[2], 0)

\* the branch for "debtor already exists" resetting the conversation
msgAddingDebtorNameInsertReset(s, c, text, f) ==
    LET r == Exec(s, f, 2, addDebtor(s, [ZeroDebtor EXCEPT !.Name = text,
                                                           !.ChatID = c]))
    IN IF r.err # "nil" THEN clearUserState(r.mem, c)
       ELSE [r.mem EXCEPT !.currentDebtors[c] = {Focus(r.debtor)},
                          !.userStates[c] = StateAddingDebtReason]

\* `if err == sql.ErrNoRows { newDebtor, err = addDebtor(newDebtor) ...`
msgAddingDebtorNameInsert(s, c, text, f) ==
    LET r == Exec(s, f, 2, addDebtor(s, [ZeroDebtor EXCEPT !.Name = text,
                                                           !.ChatID = c]))
    IN IF r.err = "debtor already exists" THEN r.mem
       ELSE IF r.err # "nil" THEN clearUserState(r.mem, c)
       ELSE [r.mem EXCEPT !.currentDebtors[c] = {Focus(r.debtor)},
                          !.userStates[c] = StateAddingDebtReason]

msgAddingDebtorName(s, c, text, f) ==
    IF f = 1 THEN clearUserState(Failed(s), c)
    ELSE LET found == getDebtorByName(s, text, c) IN
         IF found = {}
         THEN msgAddingDebtorNameInsert(s, c, text, f)
         ELSE [s EXCEPT !.currentDebtors[c] = {Focus(CHOOSE d \in found : TRUE)},
                        !.userStates[c] = StateAddingDebtReason]

\* the reason typed is dropped
msgAddingDebtReasonBlank(s, c, text) ==
    [s EXCEPT !.selectedDebts[c] = {[ZeroDebt EXCEPT !.DebtorID = CurDebtor(s, c).ID]},
              !.userStates[c] = StateAddingDebtAmount]

msgAddingDebtReason(s, c, text) ==
    [s EXCEPT !.selectedDebts[c] =
                 {[ZeroDebt EXCEPT !.DebtorID = CurDebtor(s, c).ID, !.Reason = text]},
              !.userStates[c] = StateAddingDebtAmount]

msgAddingDebtAmount(s, c, text, f) ==
    IF InvalidAmount(text) THEN s
    ELSE LET debt == [ID |-> 0, DebtorID |-> CurDebtor(s, c).ID,
                      Amount |-> ParseFloat(text)[2],
                      Reason |-> SelDebt(s, c).Reason]
             r == Exec(s, f, 1, addDebt(s, debt))
         IN clearUserState(r.mem, c)

msgEditingAmount(s, c, text, f) ==
    IF InvalidAmount(text) THEN s
    ELSE LET r == Exec(s, f, 1,
                       updateDebtAmount(s, SelDebt(s, c).ID, ParseFloat(text)[2]))
         IN IF r.err # "nil" THEN clearUserState(r.mem, c)
            ELSE clearUserState(
                     showDebtorDetails(r.mem, c, CurDebtor(r.mem, c).ID, f, 2), c)

msgEditingReason(s, c, text, f) ==
    LET r == Exec(s, f, 1, updateDebtReason(s, SelDebt(s, c).ID, text))
    IN IF r.err # "nil" THEN clearUserState(r.mem, c)
       ELSE clearUserState(
                showDebtorDetails(r.mem, c, CurDebtor(r.mem, c).ID, f, 2), c)

\* the comparison with the debt left out
ExceedsDebtNever(amountToSubtract, amount) == FALSE

\* `amountToSubtract > debt.Amount`, debt being the copy in selectedDebts
ExceedsDebt(amountToSubtract, amount) == FGt(amountToSubtract, amount)

\* `if newAmount == 0 { closeDebt(debt.ID) ...`: the result of closeDebt is
\* dropped, so a failing call (call 2) leaves the row as updateDebtAmount left it
SettleDebt(s, f, debt, newAmount) ==
    IF newAmount = 0 THEN Exec(s, f, 2, closeDebt(s, debt.ID)).mem ELSE s

msgSubtractingFromDebt(s, c, text, f) ==
    IF InvalidAmount(text) THEN s
    ELSE LET amountToSubtract == ParseFloat(text)[2]
             debt == SelDebt(s, c)
         IN IF ExceedsDebt(amountToSubtract, debt.Amount) THEN s
            ELSE LET newAmount == FSub(debt.Amount, amountToSubtract)
                     r == Exec(s, f, 1, updateDebtAmount(s, debt.ID, newAmount))
                 IN IF r.err # "nil" THEN clearUserState(r.mem, c)
                    ELSE clearUserState(
                             showDebtorDetails(SettleDebt(r.mem, f, debt, newAmount),
                                               c, debt.DebtorID, f, 3), c)

msgSettingPaymentDate(s, c, text, f) ==
    IF ~ParseDate(text)[1] THEN s
    ELSE LET currentDebtor == CurDebtor(s, c)
             r == Exec(s, f, 1,
                       updateDebtorPaymentDate(s, currentDebtor.ID, ParseDate(text)[2]))
         IN IF r.err # "nil" THEN clearUserState(r.mem, c)
            ELSE clearUserState(showDebtorDetails(r.mem, c, currentDebtor.ID, f, 2), c)

\* clearUserState comes before showDebtorDetails here
msgSettingPaymentAmount(s, c, text, f) ==
    IF InvalidAmount(text) THEN s
    ELSE LET currentDebtor == CurDebtor(s, c)
             r == Exec(s, f, 1,
                       updateDebtorPaymentAmount(s, currentDebtor.ID, ParseFloat(text)[2]))
         IN showDebtorDetails(clearUserState(r.mem, c), c, currentDebtor.ID, f, 2)

msgEditingPaymentDate(s, c, text, f) ==
    IF ~ParseDate(text)[1] THEN s
    ELSE LET r == Exec(s, f, 1,
                       updateDebtorPaymentDate(s, CurDebtor(s, c).ID, ParseDate(text)[2]))
         IN IF r.err # "nil" THEN clearUserState(r.mem, c)
            ELSE clearUserState(
                     showDebtorDetails(r.mem, c, CurDebtor(r.mem, c).ID, f, 2), c)

\* showDebtorDetails reads currentDebtors[chatID] after clearUserState removed it
msgEditingPaymentAmount(s, c, text, f) ==
    IF InvalidAmount(text) THEN s
    ELSE LET r == Exec(s, f, 1,
                       updateDebtorPaymentAmount(s, CurDebtor(s, c).ID, ParseFloat(text)[2]))
             s1 == clearUserState(r.mem, c)
         IN showDebtorDetails(s1, c, CurDebtor(s1, c).ID, f, 2)

\* a default branch that sends its hint and keeps the conversation
msgDefaultKeep(s, c) == s

\* the default branch of the switch on the state
msgDefault(s, c) == clearUserState(s, c)

handleMessage(s, c, text, f) ==
    LET state == s.userStates[c] IN
    CASE state = StateAddingDebtorName -> msgAddingDebtorName(s, c, text, f)
      [] state = StateAddingDebtReason -> msgAddingDebtReason(s, c, text)
      [] state = StateAddingDebtAmount -> msgAddingDebtAmount(s, c, text, f)
      [] state = StateEditingAmount -> msgEditingAmount(s, c, text, f)
      [] state = StateEditingReason -> msgEditingReason(s, c, text, f)
      [] state = StateSubtractingFromDebt -> msgSubtractingFromDebt(s, c, text, f)
      [] state = StateSettingPaymentDate -> msgSettingPaymentDate(s, c, text, f)
      [] state = StateSettingPaymentAmount -> msgSettingPaymentAmount(s, c, text, f)
      [] state = StateEditingPaymentDate -> msgEditingPaymentDate(s, c, text, f)
      [] state = StateEditingPaymentAmount -> msgEditingPaymentAmount(s, c, text, f)
      [] OTHER -> msgDefault(s, c)

\* ------------------------------------------------------------------ buttons pressed
\* b is the pressed button: b.kind and b.id are the callback data, b.on is not
\* seen by the handler.
cbSelectDebtor(s, c, b, f) ==
    IF f = 1 THEN clearUserState(Failed(s), c)
    ELSE IF getDebtorByID(s, b.id) = {} THEN clearUserState(s, c)
    ELSE LET debtor == CHOOSE d \in getDebtorByID(s, b.id) : TRUE
             s1 == clearUserState([s EXCEPT !.currentDebtors[c] = {Focus(debtor)}], c)
         IN showDebtorDetails(s1, c, b.id, f, 2)

cbCloseDebt(s, c, b, f) ==
    IF f = 1 THEN Failed(s)
    ELSE IF getDebtByID(s, b.id) = {} THEN s
    ELSE LET debt == CHOOSE d \in getDebtByID(s, b.id) : TRUE
             s1 == [s EXCEPT !.selectedDebts[c] = {debt},
                             !.userStates[c] = StateConfirmingCloseDebt]
         IN s1

cbConfirmClose(s, c, b, f) ==
    LET r == Exec(s, f, 1, closeDebt(s, b.id))
    IN clearUserState(showDebtorDetails(r.mem, c, CurDebtor(r.mem, c).ID, f, 2), c)

\* a cancel that carries out the close it was to cancel
cbCancelOperationCloses(s, c) ==
    clearUserState(closeDebt(s, SelDebt(s, c).ID).mem, c)

\* a cancel that leaves the conversation as it is
cbCancelOperationKeep(s, c) == s

\* after clearUserState the test `_, ok := currentDebtors[chatID]` is false
cbCancelOperation(s, c) ==
    LET s1 == clearUserState(s, c)
    IN IF s1.currentDebtors[c] # {}
       THEN showDebtorDetails(s1, c, CurDebtor(s1, c).ID, 0, 1)
       ELSE s1

cbEditDebt(s, c, b, f) ==
    IF f = 1 THEN Failed(s)
    ELSE IF getDebtByID(s, b.id) = {} THEN s
    ELSE LET debt == CHOOSE d \in getDebtByID(s, b.id) : TRUE
             s1 == [s EXCEPT !.selectedDebts[c] = {debt},
                             !.userStates[c] = StateEditingChooseWhatToEdit]
         IN s1

cbEditAmount(s, c, b) ==
    [s EXCEPT !.selectedDebts[c] = {[ZeroDebt EXCEPT !.ID = b.id]},
              !.userStates[c] = StateEditingAmount]

cbEditReason(s, c, b) ==
    [s EXCEPT !.selectedDebts[c] = {[ZeroDebt EXCEPT !.ID = b.id]},
              !.userStates[c] = StateEditingReason]

cbSubtractFromDebt(s, c, b, f) ==
    IF f = 1 THEN Failed(s)
    ELSE IF getDebtByID(s, b.id) = {} THEN s
    ELSE LET debt == CHOOSE d \in getDebtByID(s, b.id) : TRUE
         IN [s EXCEPT !.selectedDebts[c] = {debt},
                      !.userStates[c] = StateSubtractingFromDebt]

cbAddDebtToExisting(s, c) == [s EXCEPT !.userStates[c] = StateAddingDebtReason]

cbDeleteDebtor(s, c) == [s EXCEPT !.userStates[c] = StateConfirmingDeleteDebtor]

\* `debtorID := currentDebtors[chatID].ID`: the debtor deleted is the one in
\* focus, whatever view the button descends from
cbConfirmDeleteDebtor(s, c, f) ==
    LET debtorID == CurDebtor(s, c).ID
        r == Exec(s, f, 1, deleteDebtor(s, debtorID))
    IN clearUserState(r.mem, c)

cbSetState(s, c, state) == [s EXCEPT !.userStates[c] = state]

cbClearPaymentDate(s, c, f) ==
    LET r == Exec(s, f, 1, clearDebtorPaymentDate(s, CurDebtor(s, c).ID))
    IN IF r.err # "nil" THEN clearUserState(r.mem, c)
       ELSE clearUserState(
                showDebtorDetails(r.mem, c, CurDebtor(r.mem, c).ID, f, 2), c)

cbClearPaymentAmount(s, c, f) ==
    LET r == Exec(s, f, 1, clearDebtorPaymentAmount(s, CurDebtor(s, c).ID))
    IN IF r.err # "nil" THEN clearUserState(r.mem, c)
       ELSE clearUserState(
                showDebtorDetails(r.mem, c, CurDebtor(r.mem, c).ID, f, 2), c)

handleCallbackQuery(s, c, b, f) ==
    CASE b.kind = "select_debtor" -> cbSelectDebtor(s, c, b, f)
      [] b.kind = "close_debt" -> cbCloseDebt(s, c, b, f)
      [] b.kind = "confirm_close" -> cbConfirmClose(s, c, b, f)
      [] b.kind = "cancel_operation" -> cbCancelOperation(s, c)
      [] b.kind = "edit_debt" -> cbEditDebt(s, c, b, f)
      [] b.kind = "edit_amount" -> cbEditAmount(s, c, b)
      [] b.kind = "edit_reason" -> cbEditReason(s, c, b)
      [] b.kind = "subtract_from_debt" -> cbSubtractFromDebt(s, c, b, f)
      [] b.kind = "add_debt_to_existing" -> cbAddDebtToExisting(s, c)
      [] b.kind = "delete_debtor" -> cbDeleteDebtor(s, c)
      [] b.kind = "confirm_delete_debtor" -> cbConfirmDeleteDebtor(s, c, f)
      [] b.kind = "set_payment_date" -> cbSetState(s, c, StateSettingPaymentDate)
      [] b.kind = "set_payment_amount" -> cbSetState(s, c, StateSettingPaymentAmount)
      [] b.kind = "clear_payment_date" -> cbClearPaymentDate(s, c, f)
      [] b.kind = "clear_payment_amount" -> cbClearPaymentAmount(s, c, f)
      [] b.kind = "edit_payment_date" -> cbSetState(s, c, StateEditingPaymentDate)
      [] b.kind = "edit_payment_amount" -> cbSetState(s, c, StateEditingPaymentAmount)
      [] OTHER -> s

\* ------------------------------------------------------------------ state machine
\* ev for an event of a chat: kind is "command", "text" or "button"; data is
\* the command, the text or the kind of button; id and on are the button's;
\* state is the chat's conversation state before a text or a command; failed
\* tells that a store call of the event failed; view is the debtor whose view
\* was rendered last in the event (0: none) and total the total that view shows.
NoEvent ==
    [kind |-> "none", chat |-> 0, data |-> "", id |-> 0, on |-> 0,
     state |-> StateIdle, failed |-> FALSE, view |-> 0, total |-> 0]

\* no handler is between two store calls: events are handled one at a time
NoPending == [chat |-> 0, text |-> ""]

NoScript == [steps |-> <<>>, failed |-> FALSE]

\* script[c].steps is the longest tail of the events of chat c that is a prefix
\* of: /add, a text, a text, a text; failed tells that a store call failed in
\* them.
Script(c, kind, data, failed) ==
    IF kind = "command" /\ data = "add"
    THEN [steps |-> <<"add">>, failed |-> failed]
    ELSE IF kind = "text" /\ Len(script[c].steps) \in {1, 2, 3}
    THEN [steps |-> Append(script[c].steps, data),
          failed |-> script[c].failed \/ failed]
    ELSE NoScript

\* the memory after the event becomes the state; the counters stay in the bounds
Apply(s, kind, c, data, id, on) ==
    /\ s.seqDebtors <= MaxDebtors
    /\ s.seqDebts <= MaxDebts
    /\ debtors' = s.debtors
    /\ debts' = s.debts
    /\ seqDebtors' = s.seqDebtors
    /\ seqDebts' = s.seqDebts
    /\ userStates' = s.userStates
    /\ currentDebtors' = s.currentDebtors
    /\ selectedDebts' = s.selectedDebts
    /\ shown' = s.shown
    /\ ev' = [kind |-> kind, chat |-> c, data |-> data, id |-> id, on |-> on,
              state |-> IF kind \in {"text", "command"} THEN userStates[c] ELSE StateIdle,
              failed |-> s.failed, view |-> s.view, total |-> s.total]
    /\ script' = [script EXCEPT ![c] = Script(c, kind, data, s.failed)]
    /\ pending' = NoPending

\* an event is taken when the handler of the one before has returned
Commit(s, kind, c, data, id, on) ==
    /\ pending = NoPending
    /\ Apply(s, kind, c, data, id, on)

Init ==
    /\ debtors = {}
    /\ debts = {}
    /\ seqDebtors = 0
    /\ seqDebts = 0
    /\ userStates = [c \in Chats |-> StateIdle]
    /\ currentDebtors = [c \in Chats |-> {}]
    /\ selectedDebts = [c \in Chats |-> {}]
    /\ shown = [c \in Chats |-> {}]
    /\ ev = NoEvent
    /\ script = [c \in Chats |-> NoScript]
    /\ pending = NoPending

\* main's switch on update.Message.Command()
handleCommand(s, c, cmd, f) ==
    CASE cmd = "start" -> handleStartCommand(s, c)
      [] cmd = "add" -> handleAddCommand(s, c)
      [] cmd = "debts" -> handleDebtsCommand(s, c, f)
      [] cmd = "help" -> handleHelpCommand(s, c)
      [] cmd = "exportcsv" -> handleExportCSVCommand(s, c, f)
      [] OTHER -> handleUnknownCommand(s, c)

\* The failure points of an event: f = 0 is a working store, f = i > 0 makes
\* the i-th store call of the handler fail.  These are the numbers of store
\* calls the handlers make at most.
CommandCalls(cmd) == IF cmd \in {"debts", "exportcsv"} THEN 3 ELSE 0

MessageCalls(state) ==
    CASE state = StateAddingDebtorName -> 2
      [] state = StateAddingDebtAmount -> 1
      [] state = StateSubtractingFromDebt -> 4
      [] state \in {StateEditingAmount, StateEditingReason, StateSettingPaymentDate,
                    StateSettingPaymentAmount, StateEditingPaymentDate,
                    StateEditingPaymentAmount} -> 3
      [] OTHER -> 0

CallbackCalls(kind) ==
    CASE kind \in {"select_debtor", "confirm_close", "clear_payment_date",
                   "clear_payment_amount"} -> 3
      [] kind \in {"close_debt", "edit_debt", "subtract_from_debt",
                   "confirm_delete_debtor"} -> 1
      [] OTHER -> 0

\* the three branches of main's loop: a command, a free text, a button press
Command(c, cmd, f) ==
    /\ f <= CommandCalls(cmd)
    /\ Commit(handleCommand(Mem, c, cmd, f), "command", c, cmd, 0, 0)

\* the texts a chat types in a conversation state
TextsFor(state) ==
    CASE state = StateAddingDebtorName -> Names
      [] state \in {StateAddingDebtReason, StateEditingReason} -> Reasons
      [] state \in {StateAddingDebtAmount, StateEditingAmount, StateSubtractingFromDebt,
                    StateSettingPaymentAmount, StateEditingPaymentAmount} -> AmountTexts
      [] state \in {StateSettingPaymentDate, StateEditingPaymentDate} -> DateTexts
      [] OTHER -> OtherTexts

Message(c, text, f) ==
    /\ f <= MessageCalls(userStates[c])
    /\ Commit(handleMessage(Mem, c, text, f), "text", c, text, 0, 0)

\* a chat presses a button of a keyboard it was sent
CallbackQuery(c, b, f) ==
    /\ b \in Pressable(c)
    /\ f <= CallbackCalls(b.kind)
    /\ Commit(handleCallbackQuery(Mem, c, b, f), "button", c, b.kind, b.id, b.on)

\* ------------------------------------------------------------------ environments
\* An environment bounds what happens in a run: the chats that are active, the
\* commands and texts they send, the store calls that may fail (0: none fails)
\* and the buttons each chat presses.
DebtKinds ==
    {"select_debtor", "close_debt", "confirm_close", "cancel_operation", "edit_debt",
     "edit_amount", "edit_reason", "subtract_from_debt", "add_debt_to_existing",
     "delete_debtor", "confirm_delete_debtor"}
PaymentKinds ==
    {"set_payment_date", "set_payment_amount", "clear_payment_date",
     "clear_payment_amount", "edit_payment_date", "edit_payment_amount"}

Step(E) ==
    \/ \E c \in E.chats, cmd \in E.commands, f \in E.fails : Command(c, cmd, f)
    \/ \E c \in E.chats, f \in E.fails :
         \E text \in TextsFor(userStates[c]) \cap E.texts : Message(c, text, f)
    \/ \E c \in E.chats, f \in E.fails :
         \E b \in {x \in Pressable(c) : x.kind \in E.kinds[c]} : CallbackQuery(c, b, f)

\* one chat, a working store, the buttons of the debts
EnvChat ==
    [chats |-> {1}, commands |-> Commands, fails |-> {0}, texts |-> Texts \ {"Bo", "Inf", ""},
     kinds |-> [c \in Chats |-> DebtKinds]]

Next == Step(EnvChat)

Spec == Init /\ [][Next]_vars

\* one chat, a store whose calls may fail
EnvFail ==
    [chats |-> {1}, commands |-> {"add", "debts"}, fails |-> 0..4,
     texts |-> {"Al", "lunch", "1", "2", "abc"},
     kinds |-> [c \in Chats |-> DebtKinds]]

NextFail == Step(EnvFail)

SpecFail == Init /\ [][NextFail]_vars

\* one chat, a working store, the buttons of the debts and of the payment
\* fields, without the deletion of debtors
EnvPay ==
    [chats |-> {1}, commands |-> {"add", "debts"}, fails |-> {0},
     texts |-> {"Al", "lunch", "1", "2", "NaN", "abc", "1.2.24"},
     kinds |-> [c \in Chats |->
                  (DebtKinds \ {"delete_debtor", "confirm_delete_debtor"})
                      \cup PaymentKinds]]

NextPay == Step(EnvPay)

SpecPay == Init /\ [][NextPay]_vars

\* two chats, a store whose first call may fail; chat 1 closes debts, chat 2
\* adds debts and opens views
EnvTwo ==
    [chats |-> {1, 2}, commands |-> {"add", "debts"}, fails |-> {0, 1},
     texts |-> {"Al", "lunch", "1"},
     kinds |-> [c \in Chats |->
                  IF c = 1
                  THEN {"select_debtor", "close_debt", "confirm_close",
                        "cancel_operation"}
                  ELSE {"select_debtor"}]]

NextTwo == Step(EnvTwo)

SpecTwo == Init /\ [][NextTwo]_vars

\* two chats, a working store; both chats add debts under the names they
\* choose and open views
EnvNames ==
    [chats |-> {1, 2}, commands |-> {"add", "debts"}, fails |-> {0},
     texts |-> {"Al", "Bo", "lunch", "1"},
     kinds |-> [c \in Chats |-> {"select_debtor"}]]

NextNames == Step(EnvNames)

SpecNames == Init /\ [][NextNames]_vars

\* one chat with two debtors, a working store; the buttons that open views and
\* those of a view that carry no id
EnvViews ==
    [chats |-> {1}, commands |-> {"add", "debts"}, fails |-> {0},
     texts |-> {"Al", "Bo", "lunch", "1", "1.2.24"},
     kinds |-> [c \in Chats |->
                  {"select_debtor", "close_debt", "confirm_close",
                   "set_payment_date", "clear_payment_date",
                   "delete_debtor", "confirm_delete_debtor"}]]

NextViews == Step(EnvViews)

SpecViews == Init /\ [][NextViews]_vars

\* one chat, a working store; the dialogs that ask for an amount or a reason,
\* with the texts ParseFloat takes for a number that is not finite and with the
\* empty text, which is the Text of a message that is a sticker or a photo
EnvInputs ==
    [chats |-> {1}, commands |-> {"add", "debts"}, fails |-> {0},
     texts |-> {"Al", "lunch", "", "1", "0", "abc", "Inf", "NaN"},
     kinds |-> [c \in Chats |->
                  {"select_debtor", "edit_debt", "edit_amount", "edit_reason",
                   "subtract_from_debt", "set_payment_amount", "edit_payment_amount"}]]

NextInputs == Step(EnvInputs)

SpecInputs == Init /\ [][NextInputs]_vars

\* ------------------------------------------------------------------ callback data
\* handleCallbackQuery takes update.CallbackQuery.Data as it comes and never
\* compares it with a keyboard it sent to the chat: a client that writes its
\* own callback data reaches every branch with every id.
DataKinds == {"select_debtor", "confirm_close", "confirm_delete_debtor"}

CallbackData(c, kind, id, f) ==
    /\ f <= CallbackCalls(kind)
    /\ Commit(handleCallbackQuery(Mem, c, Btn(kind, id, 0), f), "button", c, kind, id, 0)

\* a working store; chat 1 keeps its ledger with the commands, the texts and
\* the buttons it was sent, chat 2 sends callback data of its own making
EnvData ==
    [chats |-> {1}, commands |-> {"add", "debts"}, fails |-> {0},
     texts |-> {"Al", "lunch", "1"},
     kinds |-> [c \in Chats |-> {"select_debtor", "subtract_from_debt"}]]

NextData ==
    \/ Step(EnvData)
    \/ \E kind \in DataKinds, id \in 0..MaxDebtors : CallbackData(2, kind, id, 0)

SpecData == Init /\ [][NextData]_vars

\* ------------------------------------------------------------------ a shared database
\* The database is the file ./debt_tracker.db, which another connection (a
\* second instance of the bot, a maintenance script) can write.  Here the
\* handler of a name is taken in its two store calls, getDebtorByName and
\* addDebtor, and the other connection may insert a debtor in between.
NameLookup(c, text) ==
    /\ pending = NoPending
    /\ userStates[c] = StateAddingDebtorName
    /\ getDebtorByName(Mem, text, c) = {}
    /\ pending' = [chat |-> c, text |-> text]
    /\ UNCHANGED <<debtors, debts, seqDebtors, seqDebts, userStates, currentDebtors,
                   selectedDebts, shown, ev, script>>

OtherWriter(name, chatID) ==
    LET r == addDebtor(Mem, [ZeroDebtor EXCEPT !.Name = name, !.ChatID = chatID])
    IN /\ r.err = "nil"
       /\ r.mem.seqDebtors <= MaxDebtors
       /\ debtors' = r.mem.debtors
       /\ seqDebtors' = r.mem.seqDebtors
       /\ UNCHANGED <<debts, seqDebts, userStates, currentDebtors, selectedDebts,
                      shown, ev, script, pending>>

NameInsert(c) ==
    /\ pending # NoPending
    /\ pending.chat = c
    /\ Apply(msgAddingDebtorNameInsert(Mem, c, pending.text, 0),
             "text", c, pending.text, 0, 0)

EnvShared ==
    [chats |-> {1}, commands |-> {"add", "debts"}, fails |-> {0},
     texts |-> {"Al", "Bo", "lunch", "1"},
     kinds |-> [c \in Chats |-> {"select_debtor", "add_debt_to_existing"}]]

NextShared ==
    \/ Step(EnvShared)
    \/ \E c \in EnvShared.chats, text \in Names : NameLookup(c, text)
    \/ \E name \in Names, chatID \in EnvShared.chats : OtherWriter(name, chatID)
    \/ \E c \in EnvShared.chats : NameInsert(c)

SpecShared == Init /\ [][NextShared]_vars

\* ------------------------------------------------------------------ the ledger alone
\* The ledger functions called directly, in any order and with any arguments.
\* ev for such a call: op and its arguments, the error returned, the id
\* returned by addDebtor, and whether the row named by id existed before.
StoreAmounts == {1, 2}
StoreDates == {20240201}
DebtorIDs == 0..MaxDebtors
DebtIDs == 0..MaxDebts

StoreCommit(r, op, id, name, chatID, newID) ==
    /\ r.mem.seqDebtors <= MaxDebtors
    /\ r.mem.seqDebts <= MaxDebts
    /\ debtors' = r.mem.debtors
    /\ debts' = r.mem.debts
    /\ seqDebtors' = r.mem.seqDebtors
    /\ seqDebts' = r.mem.seqDebts
    /\ ev' = [kind |-> "store", op |-> op, id |-> id, name |-> name, chat |-> chatID,
              err |-> r.err, newID |-> newID,
              existed |-> IF op \in {"deleteDebtor", "updateDebtorPaymentDate",
                                     "updateDebtorPaymentAmount",
                                     "clearDebtorPaymentDate",
                                     "clearDebtorPaymentAmount"}
                          THEN getDebtorByID(Mem, id) # {}
                          ELSE getDebtByID(Mem, id) # {}]
    /\ UNCHANGED <<userStates, currentDebtors, selectedDebts, shown, script, pending>>

StoreAddDebtor(name, chatID) ==
    LET r == addDebtor(Mem, [ZeroDebtor EXCEPT !.Name = name, !.ChatID = chatID])
    IN StoreCommit(r, "addDebtor", 0, name, chatID, r.debtor.ID)

StoreAddDebt(debtorID, amount, reason) ==
    StoreCommit(addDebt(Mem, [ZeroDebt EXCEPT !.DebtorID = debtorID,
                                              !.Amount = amount, !.Reason = reason]),
                "addDebt", debtorID, reason, 0, 0)

StoreUpdateDebtAmount(debtID, amount) ==
    StoreCommit(updateDebtAmount(Mem, debtID, amount), "updateDebtAmount",
                debtID, "", 0, 0)

StoreCloseDebt(debtID) ==
    StoreCommit(closeDebt(Mem, debtID), "closeDebt", debtID, "", 0, 0)

StoreDeleteDebtor(debtorID) ==
    StoreCommit(deleteDebtor(Mem, debtorID), "deleteDebtor", debtorID, "", 0, 0)

StoreUpdateDebtorPaymentDate(debtorID, paymentDate) ==
    StoreCommit(updateDebtorPaymentDate(Mem, debtorID, paymentDate),
                "updateDebtorPaymentDate", debtorID, "", 0, 0)

StoreUpdateDebtorPaymentAmount(debtorID, paymentAmount) ==
    StoreCommit(updateDebtorPaymentAmount(Mem, debtorID, paymentAmount),
                "updateDebtorPaymentAmount", debtorID, "", 0, 0)

StoreClearDebtorPaymentDate(debtorID) ==
    StoreCommit(clearDebtorPaymentDate(Mem, debtorID),
                "clearDebtorPaymentDate", debtorID, "", 0, 0)

StoreClearDebtorPaymentAmount(debtorID) ==
    StoreCommit(clearDebtorPaymentAmount(Mem, debtorID),
                "clearDebtorPaymentAmount", debtorID, "", 0, 0)

NextStore ==
    \/ \E name \in Names, chatID \in Chats : StoreAddDebtor(name, chatID)
    \/ \E debtorID \in DebtorIDs, amount \in StoreAmounts :
         StoreAddDebt(debtorID, amount, "lunch")
    \/ \E debtID \in DebtIDs, amount \in StoreAmounts :
         StoreUpdateDebtAmount(debtID, amount)
    \/ \E debtID \in DebtIDs : StoreCloseDebt(debtID)
    \/ \E debtorID \in DebtorIDs : StoreDeleteDebtor(debtorID)
    \/ \E debtorID \in DebtorIDs, paymentDate \in StoreDates :
         StoreUpdateDebtorPaymentDate(debtorID, paymentDate)
    \/ \E debtorID \in DebtorIDs, paymentAmount \in StoreAmounts :
         StoreUpdateDebtorPaymentAmount(debtorID, paymentAmount)
    \/ \E debtorID \in DebtorIDs : StoreClearDebtorPaymentDate(debtorID)
    \/ \E debtorID \in DebtorIDs : StoreClearDebtorPaymentAmount(debtorID)

SpecStore == Init /\ [][NextStore]_vars

\* ------------------------------------------------------------------ properties

\* C1: in every reachable state, every persisted debt refers to a debtor that
\* exists: there is no orphan debt.
C1_NoOrphanDebt ==
    \A d \in debts : \E r \in debtors : r.ID = d.DebtorID

\* C2: after deleteDebtor(id) on an existing debtor, the debtor is gone and
\* listDebts(id) is empty: the debtor and all its debts go together.
C2_DeleteDebtorCascades ==
    (ev.kind = "store" /\ ev.op = "deleteDebtor" /\ ev.existed /\ ev.err = "nil")
        => (getDebtorByID(Mem, ev.id) = {} /\ listDebts(Mem, ev.id) = {})

\* C3: when a chat presses delete-debtor on the rendered view of its debtor D
\* and then presses the confirm button that press opened, D is no longer a
\* debtor, none of D's debts remains, and D is not in the list of the chat.
C3_ConfirmDeleteRemoves ==
    [][(/\ ev.kind = "button" /\ ev.data = "delete_debtor"
        /\ ev'.kind = "button" /\ ev'.data = "confirm_delete_debtor"
        /\ ev'.chat = ev.chat /\ ev'.on = ev.on
        /\ \E r \in debtors : r.ID = ev.on /\ r.ChatID = ev.chat)
       => (/\ \A r \in debtors' : r.ID # ev.on
           /\ \A d \in debts' : d.DebtorID # ev.on
           /\ \A r \in listDebtors(Mem, ev.chat)' : r.ID # ev.on)]_vars

\* C4: no two debtors have the same name and the same owner chat.
C4_UniqueNamePerChat ==
    \A d1 \in debtors, d2 \in debtors :
        (d1.Name = d2.Name /\ d1.ChatID = d2.ChatID) => d1 = d2

\* a second insert of a pair was refused while the same name lives in two chats
C4_Witness ==
    /\ ev.kind = "store" /\ ev.op = "addDebtor" /\ ev.err = "debtor already exists"
    /\ \E d1 \in debtors, d2 \in debtors : d1.Name = d2.Name /\ d1.ChatID # d2.ChatID

\* C5: addDebtor(name, chat) for a pair that already exists returns the
\* already-exists error and changes nothing in the ledger, the payment fields
\* of the existing debtor included.
C5_DuplicateRejected ==
    [][(/\ ev'.kind = "store" /\ ev'.op = "addDebtor"
        /\ \E d \in debtors : d.Name = ev'.name /\ d.ChatID = ev'.chat)
       => (/\ ev'.err = "debtor already exists"
           /\ debtors' = debtors
           /\ debts' = debts)]_vars

\* a duplicate of a debtor with a payment date and a debt was refused
C5_Witness ==
    /\ ev.kind = "store" /\ ev.op = "addDebtor" /\ ev.err = "debtor already exists"
    /\ \E d \in debtors :
         /\ d.Name = ev.name /\ d.ChatID = ev.chat
         /\ d.PaymentDate # NullTime
         /\ \E x \in debts : x.DebtorID = d.ID

\* C6: after a successful addDebtor(name, chat), getDebtorByName(name, chat)
\* finds a debtor, and its id is the id addDebtor returned.
C6_CreateThenFind ==
    (ev.kind = "store" /\ ev.op = "addDebtor" /\ ev.err = "nil")
        => (/\ getDebtorByName(Mem, ev.name, ev.chat) # {}
            /\ \A r \in getDebtorByName(Mem, ev.name, ev.chat) : r.ID = ev.newID)

\* a debtor was created after another one was deleted
C6_Witness ==
    /\ ev.kind = "store" /\ ev.op = "addDebtor" /\ ev.err = "nil"
    /\ ev.newID = 2 /\ Cardinality(debtors) = 1
    /\ \E r \in getDebtorByName(Mem, ev.name, ev.chat) : r.ID = 2

\* C7: the events /add, name n, reason r, valid amount a of a chat
\* leave the debtor (n, chat) existing exactly once and add exactly one debt,
\* of that debtor, with amount a and reason r, and nothing else to the debts.
C7_AddSequence ==
    [][\A c \in Chats :
         (/\ ev'.kind = "text" /\ ev'.chat = c
          /\ Len(script'[c].steps) = 4
          /\ ParseFloat(ev'.data)[1]
          /\ FGt(ParseFloat(ev'.data)[2], 0) /\ ParseFloat(ev'.data)[2] # PosInf)
         => \E r \in debtors' :
              /\ r.Name = script'[c].steps[2] /\ r.ChatID = c
              /\ \A r2 \in debtors' : (r2.Name = r.Name /\ r2.ChatID = c) => r2 = r
              /\ \E new \in debts' :
                   /\ \A x \in debts : x.ID # new.ID
                   /\ debts' = debts \cup {new}
                   /\ new.DebtorID = r.ID
                   /\ new.Amount = ParseFloat(ev'.data)[2]
                   /\ new.Reason = script'[c].steps[3]]_vars

\* the four events went through for a debtor that had a debt already
C7_Witness ==
    /\ ev.kind = "text" /\ ev.state = StateAddingDebtAmount
    /\ Len(script[ev.chat].steps) = 4
    /\ ev.data = "2"
    /\ \E r \in debtors :
         /\ r.Name = script[ev.chat].steps[2]
         /\ \E d1 \in debts, d2 \in debts :
              /\ d1.ID # d2.ID /\ d1.DebtorID = r.ID /\ d2.DebtorID = r.ID
              /\ d2.Amount = 2 /\ d2.Reason = script[ev.chat].steps[3]

\* C8: in SubtractingFromDebt with the focused debt of amount d, a positive
\* amount a <= d leaves the debt with d - a when that is positive and deletes
\* it when that is zero; the chat is Idle and no other debt changes.  An event
\* in which a store call fails may end as a failed store operation has to end
\* instead: the failure is reported, no debt has changed and the chat is Idle.
C8_Subtract ==
    [][\A c \in Chats : \A d \in debts :
         (/\ ev'.kind = "text" /\ ev'.chat = c
          /\ userStates[c] = StateSubtractingFromDebt
          /\ selectedDebts[c] # {} /\ d.ID = SelDebt(Mem, c).ID
          /\ ParseFloat(ev'.data)[1]
          /\ FGt(ParseFloat(ev'.data)[2], 0)
          /\ FLe(ParseFloat(ev'.data)[2], d.Amount))
         => \/ /\ IF FSub(d.Amount, ParseFloat(ev'.data)[2]) = 0
                   THEN \A x \in debts' : x.ID # d.ID
                   ELSE [d EXCEPT !.Amount = FSub(d.Amount, ParseFloat(ev'.data)[2])]
                            \in debts'
                /\ {x \in debts' : x.ID # d.ID} = {x \in debts : x.ID # d.ID}
                /\ userStates'[c] = StateIdle
            \/ /\ ev'.failed
                /\ debts' = debts
                /\ userStates'[c] = StateIdle]_vars

\* C9: in every reachable state, the states after a failed store call
\* included, every persisted debt has an amount greater than zero.
C9_NoZeroAmountDebt ==
    \A d \in debts : FGt(d.Amount, 0)

\* C10: in SubtractingFromDebt, a numeric amount greater than the amount of
\* the focused debt changes no debt and leaves the conversation state and the
\* focus of the chat as they were.
C10_ExcessRejected ==
    [][\A c \in Chats : \A d \in debts :
         (/\ ev'.kind = "text" /\ ev'.chat = c
          /\ userStates[c] = StateSubtractingFromDebt
          /\ selectedDebts[c] # {} /\ d.ID = SelDebt(Mem, c).ID
          /\ ParseFloat(ev'.data)[1]
          /\ FGt(ParseFloat(ev'.data)[2], d.Amount))
         => (/\ debts' = debts
             /\ userStates'[c] = StateSubtractingFromDebt
             /\ selectedDebts'[c] = selectedDebts[c]
             /\ currentDebtors'[c] = currentDebtors[c])]_vars

\* 2 was typed against a debt of 1 and the chat is still subtracting from it
C10_Witness ==
    /\ ev.kind = "text" /\ ev.state = StateSubtractingFromDebt /\ ev.data = "2"
    /\ userStates[ev.chat] = StateSubtractingFromDebt
    /\ \E d \in debts : d.ID = SelDebt(Mem, ev.chat).ID /\ d.Amount = 1

\* C11: an input the conversation state of the chat does not expect (a free
\* text in a state that expects a button, a button in a state that expects a
\* text, a button of another button state) either leaves the conversation
\* state as it was or changes no debtor and no debt.
C11_UnexpectedInputSafe ==
    [][\A c \in Chats :
         LET state == userStates[c]
             expected ==
                 CASE state = StateIdle ->
                        {"select_debtor", "close_debt", "edit_debt",
                         "add_debt_to_existing", "delete_debtor"} \cup PaymentKinds
                   [] state = StateEditingChooseWhatToEdit ->
                        {"edit_amount", "edit_reason", "subtract_from_debt"}
                   [] state = StateConfirmingCloseDebt ->
                        {"confirm_close", "cancel_operation"}
                   [] state = StateConfirmingDeleteDebtor ->
                        {"confirm_delete_debtor", "cancel_operation"}
                   [] OTHER -> {"text"}
             input == IF ev'.kind = "text" THEN "text" ELSE ev'.data
         IN (ev'.chat = c /\ ev'.kind \in {"text", "button"} /\ input \notin expected)
            => \/ userStates'[c] = state
               \/ debtors' = debtors /\ debts' = debts]_vars

\* C12: in the seven states that accept an amount or a date, a text that is
\* not a positive amount (not a date of an accepted layout) leaves the
\* conversation state, the focused debtor, the focused debt and the ledger as
\* they were.
C12_InvalidInputKeepsAll ==
    [][\A c \in Chats :
         (/\ ev'.kind = "text" /\ ev'.chat = c
          /\ \/ /\ userStates[c] \in {StateAddingDebtAmount, StateEditingAmount,
                                      StateSubtractingFromDebt,
                                      StateSettingPaymentAmount,
                                      StateEditingPaymentAmount}
                /\ ~(ParseFloat(ev'.data)[1] /\ FGt(ParseFloat(ev'.data)[2], 0))
             \/ /\ userStates[c] \in {StateSettingPaymentDate, StateEditingPaymentDate}
                /\ ~ParseDate(ev'.data)[1])
         => (/\ userStates'[c] = userStates[c]
             /\ currentDebtors'[c] = currentDebtors[c]
             /\ selectedDebts'[c] = selectedDebts[c]
             /\ debtors' = debtors
             /\ debts' = debts)]_vars

\* C13: a press of a button that carries the id of a debtor or of a debt that
\* is no longer in the ledger changes no debtor and no debt and leaves the chat
\* Idle, and so does the text that follows such a press.
C13_StaleIdToIdle ==
    [][\A c \in Chats :
         /\ (/\ ev'.kind = "button" /\ ev'.chat = c
             /\ \/ ev'.data = "select_debtor" /\ getDebtorByID(Mem, ev'.id) = {}
                \/ /\ ev'.data \in {"close_debt", "confirm_close", "edit_debt",
                                    "edit_amount", "edit_reason", "subtract_from_debt"}
                   /\ getDebtByID(Mem, ev'.id) = {})
            => (debtors' = debtors /\ debts' = debts /\ userStates'[c] = StateIdle)
         /\ (/\ ev.kind = "button" /\ ev.chat = c
             /\ ev.data \in {"edit_amount", "edit_reason", "subtract_from_debt"}
             /\ getDebtByID(Mem, ev.id) = {}
             /\ ev'.kind = "text" /\ ev'.chat = c)
            => (debtors' = debtors /\ debts' = debts /\ userStates'[c] = StateIdle)]_vars

\* C14: when a store call fails while a text or a button press of a chat is
\* handled, the chat is Idle after the event and the conversation of every
\* other chat is as it was.
C14_StoreFailureToIdle ==
    [][\A c \in Chats :
         (ev'.chat = c /\ ev'.kind \in {"text", "button"} /\ ev'.failed)
         => (/\ userStates'[c] = StateIdle
             /\ \A o \in Chats \ {c} :
                  /\ userStates'[o] = userStates[o]
                  /\ currentDebtors'[o] = currentDebtors[o]
                  /\ selectedDebts'[o] = selectedDebts[o])]_vars

\* C15: in AddingDebtorName, when addDebtor answers that the debtor already
\* exists, the chat stays in AddingDebtorName with no debtor and no debt in
\* focus and the ledger is as it was, so the next text is read as a name.
C15_AlreadyExistsReprompts ==
    [][\A c \in Chats :
         (/\ pending # NoPending /\ pending.chat = c
          /\ pending' = NoPending
          /\ \E d \in debtors : d.Name = pending.text /\ d.ChatID = c)
         => (/\ userStates'[c] = StateAddingDebtorName
             /\ currentDebtors'[c] = {}
             /\ selectedDebts'[c] = {}
             /\ debtors' = debtors
             /\ debts' = debts)]_vars

\* the name typed is the name of a debtor of the chat and the chat is still
\* asked for a name
C15_Witness ==
    /\ pending = NoPending
    /\ ev.kind = "text" /\ ev.state = StateAddingDebtorName
    /\ userStates[ev.chat] = StateAddingDebtorName
    /\ currentDebtors[ev.chat] = {}
    /\ \E d \in debtors : d.Name = ev.data /\ d.ChatID = ev.chat

\* C16: an event of a chat leaves the conversation state, the focused debtor
\* and the focused debt of every other chat as they were, and what the event
\* does to the chat and to the ledger is the same when the entries of the other
\* chats are empty; for every command, text and button, with or without a
\* failing store call.
C16_ChatIsolation ==
    /\ [][\A c \in Chats :
            (ev'.chat = c /\ ev'.kind \in {"command", "text", "button"})
            => \A o \in Chats \ {c} :
                 /\ userStates'[o] = userStates[o]
                 /\ currentDebtors'[o] = currentDebtors[o]
                 /\ selectedDebts'[o] = selectedDebts[o]]_vars
    /\ [](\A c \in Chats :
            LET alone == [Mem EXCEPT
                            !.userStates = [o \in Chats |->
                                              IF o = c THEN @[o] ELSE StateIdle],
                            !.currentDebtors = [o \in Chats |->
                                                  IF o = c THEN @[o] ELSE {}],
                            !.selectedDebts = [o \in Chats |->
                                                 IF o = c THEN @[o] ELSE {}]]
                same(r1, r2) ==
                    /\ r1.userStates[c] = r2.userStates[c]
                    /\ r1.currentDebtors[c] = r2.currentDebtors[c]
                    /\ r1.selectedDebts[c] = r2.selectedDebts[c]
                    /\ r1.shown[c] = r2.shown[c]
                    /\ r1.debtors = r2.debtors /\ r1.debts = r2.debts
                    /\ r1.failed = r2.failed /\ r1.view = r2.view
                    /\ r1.total = r2.total
            IN \A f \in EnvTwo.fails :
                 /\ \A cmd \in EnvTwo.commands :
                      same(handleCommand(Mem, c, cmd, f), handleCommand(alone, c, cmd, f))
                 /\ \A text \in EnvTwo.texts :
                      same(handleMessage(Mem, c, text, f),
                           handleMessage(alone, c, text, f))
                 /\ \A b \in Pressable(c) :
                      same(handleCallbackQuery(Mem, c, b, f),
                           handleCallbackQuery(alone, c, b, f)))

\* a store call failed in an event of chat 1 while chat 2 was asked for the
\* amount of a debt, with a debtor and a draft debt in focus
C16_Witness ==
    /\ ev.chat = 1 /\ ev.kind = "button" /\ ev.failed
    /\ userStates[2] = StateAddingDebtAmount
    /\ currentDebtors[2] # {} /\ selectedDebts[2] # {}

\* C17: after an event that completes or cancels an operation (the valid last
\* text of a dialog, a confirm button, the cancel button, a button that clears
\* a payment field) the chat is Idle and has no focused debt.
C17_CompletedToIdle ==
    [][\A c \in Chats :
         (/\ ev'.chat = c
          /\ \/ /\ ev'.kind = "button"
                /\ ev'.data \in {"confirm_close", "confirm_delete_debtor",
                                 "cancel_operation", "clear_payment_date",
                                 "clear_payment_amount"}
             \/ /\ ev'.kind = "text"
                /\ \/ /\ userStates[c] \in {StateAddingDebtAmount, StateEditingAmount,
                                            StateSettingPaymentAmount,
                                            StateEditingPaymentAmount}
                      /\ ParseFloat(ev'.data)[1] /\ FGt(ParseFloat(ev'.data)[2], 0)
                   \/ /\ userStates[c] = StateSubtractingFromDebt
                      /\ ParseFloat(ev'.data)[1] /\ FGt(ParseFloat(ev'.data)[2], 0)
                      /\ FLe(ParseFloat(ev'.data)[2], SelDebt(Mem, c).Amount)
                   \/ userStates[c] = StateEditingReason
                   \/ /\ userStates[c] \in {StateSettingPaymentDate,
                                            StateEditingPaymentDate}
                      /\ ParseDate(ev'.data)[1])
         => (userStates'[c] = StateIdle /\ selectedDebts'[c] = {})]_vars

\* a payment date was typed and stored, and the chat is Idle with the view of
\* the debtor rendered
C17_Witness ==
    /\ ev.kind = "text" /\ ev.state = StateSettingPaymentDate
    /\ ParseDate(ev.data)[1] /\ ~ev.failed
    /\ userStates[ev.chat] = StateIdle /\ selectedDebts[ev.chat] = {}
    /\ \E d \in debtors : d.ID = ev.view /\ d.PaymentDate.Valid

\* C18: in every reachable state every command of a chat is accepted, and a
\* command resets the chat: /add leaves it in AddingDebtorName and every other
\* command, known or not, leaves it Idle, with no focused debtor and no
\* focused debt.
C18_CommandResets ==
    /\ [](\A c \in EnvChat.chats, cmd \in Commands : ENABLED Command(c, cmd, 0))
    /\ [][\A c \in Chats :
            (ev'.kind = "command" /\ ev'.chat = c)
            => (/\ userStates'[c] = IF ev'.data = "add" THEN StateAddingDebtorName
                                    ELSE StateIdle
                /\ currentDebtors'[c] = {}
                /\ selectedDebts'[c] = {})]_vars

\* /add arrived while the chat was subtracting from a debt
C18_Witness ==
    /\ ev.kind = "command" /\ ev.data = "add"
    /\ ev.state = StateSubtractingFromDebt
    /\ userStates[ev.chat] = StateAddingDebtorName
    /\ currentDebtors[ev.chat] = {} /\ selectedDebts[ev.chat] = {}

\* C19: closeDebt called a second time on the same id reports that the debt is
\* not found and leaves the ledger as the first call left it.
C19_SecondCloseNotFound ==
    [][(/\ ev.kind = "store" /\ ev.op = "closeDebt"
        /\ ev'.kind = "store" /\ ev'.op = "closeDebt" /\ ev'.id = ev.id)
       => (ev'.err # "nil" /\ debtors' = debtors /\ debts' = debts)]_vars

\* C20: in ConfirmingCloseDebt, the confirm button and the cancel button both
\* leave the chat Idle and render the view of the debtor that owns the debt.
C20_ConfirmCloseRerenders ==
    [][\A c \in Chats : \A d \in debts :
         (/\ userStates[c] = StateConfirmingCloseDebt
          /\ selectedDebts[c] # {} /\ d.ID = SelDebt(Mem, c).ID
          /\ \E r \in debtors : r.ID = d.DebtorID
          /\ ev'.kind = "button" /\ ev'.chat = c
          /\ \/ ev'.data = "confirm_close" /\ ev'.id = d.ID
             \/ ev'.data = "cancel_operation")
         => (userStates'[c] = StateIdle /\ ev'.view = d.DebtorID)]_vars

\* the amounts of the debts of debtor D with an id up to n, added up by id
RECURSIVE SumOfAmounts(_, _, _)
SumOfAmounts(rows, D, n) ==
    IF n = 0 THEN 0
    ELSE LET hit == {d \in rows : d.ID = n /\ d.DebtorID = D}
         IN IF hit = {} THEN SumOfAmounts(rows, D, n - 1)
            ELSE FAdd(SumOfAmounts(rows, D, n - 1), (CHOOSE d \in hit : TRUE).Amount)

\* C21: whenever an event has rendered the view of a debtor, the total that
\* view shows is the sum of the amounts of the debts the ledger holds for that
\* debtor after the event, whatever adds, edits, subtractions and closes came
\* before.
C21_TotalIsSum ==
    (ev.kind \in {"command", "text", "button"} /\ ev.view # 0)
    => ev.total = SumOfAmounts(debts, ev.view, seqDebts)

\* a subtraction left a debtor with two debts, of 1 and of 2, and the view
\* rendered after it shows the total 3
C21_Witness ==
    /\ ev.kind = "text" /\ ev.state = StateSubtractingFromDebt
    /\ ev.view # 0 /\ ev.total = 3
    /\ \E d1, d2 \in debts :
         /\ d1.ID # d2.ID /\ d1.DebtorID = ev.view /\ d2.DebtorID = ev.view
         /\ d1.Amount = 1 /\ d2.Amount = 2

\* the values a payment date and a payment amount column can hold
PaymentDateValues == {NullTime} \cup {[Valid |-> TRUE, Time |-> t] : t \in StoreDates}
PaymentAmountValues ==
    {NullFloat64} \cup {[Valid |-> TRUE, Float64 |-> a] : a \in StoreAmounts}

\* C22: setting or clearing the payment date of a debtor changes at most the
\* payment date of the debtor with that id, and setting or clearing the payment
\* amount changes at most the payment amount of that debtor: the other payment
\* field, the other debtors, every debt and the id counters stay as they were.
C22_PaymentFrame ==
    [][(ev'.kind = "store" /\ ev'.op \in {"updateDebtorPaymentDate", "clearDebtorPaymentDate",
                                          "updateDebtorPaymentAmount",
                                          "clearDebtorPaymentAmount"})
       => /\ debts' = debts /\ seqDebts' = seqDebts /\ seqDebtors' = seqDebtors
          /\ ev'.op \in {"updateDebtorPaymentDate", "clearDebtorPaymentDate"}
             => \E v \in PaymentDateValues :
                  debtors' = {IF d.ID = ev'.id THEN [d EXCEPT !.PaymentDate = v] ELSE d
                                : d \in debtors}
          /\ ev'.op \in {"updateDebtorPaymentAmount", "clearDebtorPaymentAmount"}
             => \E v \in PaymentAmountValues :
                  debtors' = {IF d.ID = ev'.id THEN [d EXCEPT !.PaymentAmount = v] ELSE d
                                : d \in debtors}]_vars

\* the payment date of a debtor was cleared while the debtor kept a payment
\* amount and a debt, and another debtor kept a payment date
C22_Witness ==
    /\ ev.kind = "store" /\ ev.op = "clearDebtorPaymentDate" /\ ev.existed
    /\ \E d \in debtors :
         /\ d.ID = ev.id /\ ~d.PaymentDate.Valid /\ d.PaymentAmount.Valid
         /\ \E k \in debts : k.DebtorID = d.ID
    /\ \E o \in debtors : o.ID # ev.id /\ o.PaymentDate.Valid

\* C23: the command /exportcsv leaves every debtor and every debt as they
\* were, and leaves the conversation state, the focused debtor and the focused
\* debt of every chat as they were.
C23_ExportChangesNothing ==
    [][(ev'.kind = "command" /\ ev'.data = "exportcsv")
       => /\ debtors' = debtors /\ debts' = debts
          /\ userStates' = userStates
          /\ currentDebtors' = currentDebtors
          /\ selectedDebts' = selectedDebts]_vars

\* the change of the ledger in a step touches no debtor but D and no debt but
\* those of D
OnlyDebtor(D) ==
    /\ \A d \in debtors \cup debtors' : d.ID # D => (d \in debtors /\ d \in debtors')
    /\ \A k \in debts \cup debts' : k.DebtorID # D => (k \in debts /\ k \in debts')

\* C24: what the press of a button of the view of debtor D changes in the
\* ledger, in its own handler or in the handler of the text typed right after
\* it in the state the button set, is a change of debtor D or of a debt of D,
\* whatever views the chat received after the view of D.
C24_ButtonTargetsItsView ==
    [][\A c \in Chats :
         /\ (ev'.kind = "button" /\ ev'.chat = c /\ ev'.on # 0) => OnlyDebtor(ev'.on)
         /\ (/\ ev.kind = "button" /\ ev.chat = c /\ ev.on # 0
             /\ userStates[c] \in {StateEditingAmount, StateEditingReason,
                                   StateSubtractingFromDebt, StateSettingPaymentDate,
                                   StateSettingPaymentAmount, StateEditingPaymentDate,
                                   StateEditingPaymentAmount}
             /\ ev'.kind = "text" /\ ev'.chat = c)
            => OnlyDebtor(ev.on)]_vars

\* what a name typed by chat c in state AddingDebtorName has to do: focus the
\* debtor of c with that name and create none, or create one debtor of c with
\* that name under a new id and focus it; then ask for the reason
NameFocusesOrCreates(c, name) ==
    /\ userStates'[c] = StateAddingDebtReason
    /\ debts' = debts
    /\ IF \E d \in debtors : d.Name = name /\ d.ChatID = c
       THEN /\ debtors' = debtors
            /\ \E d \in debtors :
                 d.Name = name /\ d.ChatID = c /\ currentDebtors'[c] = {Focus(d)}
       ELSE \E n \in debtors' :
              /\ debtors' = debtors \cup {n}
              /\ \A d \in debtors : d.ID # n.ID
              /\ n.Name = name /\ n.ChatID = c
              /\ currentDebtors'[c] = {Focus(n)}

\* C25: in state AddingDebtorName a name of a debtor of the same chat focuses
\* that debtor and creates none, a name that no debtor of the chat has creates
\* a debtor of this chat (also when a debtor of another chat has it), and the
\* next state is AddingDebtReason in both cases.
C25_NameFocusesOrCreates ==
    [][\A c \in Chats :
         (ev'.kind = "text" /\ ev'.chat = c /\ ev'.state = StateAddingDebtorName)
         => NameFocusesOrCreates(c, ev'.data)]_vars

\* chat 2 typed the name that a debtor of chat 1 has: a second debtor of that
\* name exists, it is owned by chat 2 and is the focus of chat 2
C25_Witness ==
    /\ ev.kind = "text" /\ ev.chat = 2 /\ ev.state = StateAddingDebtorName
    /\ userStates[2] = StateAddingDebtReason
    /\ \E d1, d2 \in debtors :
         /\ d1.Name = ev.data /\ d1.ChatID = 1
         /\ d2.Name = ev.data /\ d2.ChatID = 2 /\ d2.ID # d1.ID
         /\ currentDebtors[2] = {Focus(d2)}

\* C26: a press of cancel leaves every debtor and every debt as they were (and
\* hands out no id), whatever the conversation state of the chat at the press.
C26_CancelMutatesNothing ==
    [][(ev'.kind = "button" /\ ev'.data = "cancel_operation")
       => /\ debtors' = debtors /\ debts' = debts
          /\ seqDebtors' = seqDebtors /\ seqDebts' = seqDebts]_vars

\* cancel was pressed and answered while the ledger holds a debtor with a
\* payment date and a debt of that debtor
C26_Witness ==
    /\ ev.kind = "button" /\ ev.data = "cancel_operation" /\ ~ev.failed
    /\ userStates[ev.chat] = StateIdle
    /\ \E d \in debtors :
         /\ d.ID = ev.on /\ d.PaymentDate.Valid
         /\ \E k \in debts : k.DebtorID = d.ID

\* C27: a free text that arrives while the chat is Idle, choosing what to edit,
\* or asked to confirm the close of a debt or the deletion of a debtor leaves
\* the chat Idle with no focused debtor and no focused debt, and leaves every
\* debtor and every debt as they were.
C27_TextInButtonStateResets ==
    [][\A c \in Chats :
         (/\ ev'.kind = "text" /\ ev'.chat = c
          /\ ev'.state \in {StateIdle, StateEditingChooseWhatToEdit,
                            StateConfirmingCloseDebt, StateConfirmingDeleteDebtor})
         => /\ userStates'[c] = StateIdle
            /\ currentDebtors'[c] = {}
            /\ selectedDebts'[c] = {}
            /\ debtors' = debtors /\ debts' = debts]_vars

\* a text arrived while the chat was asked to confirm the close of a debt: the
\* chat is Idle without focus and the debt is still there
C27_Witness ==
    /\ ev.kind = "text" /\ ev.state = StateConfirmingCloseDebt
    /\ userStates[ev.chat] = StateIdle
    /\ currentDebtors[ev.chat] = {} /\ selectedDebts[ev.chat] = {}
    /\ debts # {}

\* the text denotes a finite number greater than zero
FinitePositive(text) ==
    LET p == ParseFloat(text)
    IN p[1] /\ p[2] \notin {NaN, PosInf, NegInf} /\ p[2] > 0

\* C28: in a state that asks for an amount, a text that does not denote a
\* finite number greater than zero (a text that is no number, zero, a negative
\* number, NaN, an infinity) is answered as invalid input: nothing is stored
\* and the chat keeps its state, its focused debtor and its focused debt.
C28_OnlyFinitePositiveAccepted ==
    [][\A c \in Chats :
         (/\ ev'.kind = "text" /\ ev'.chat = c
          /\ ev'.state \in {StateAddingDebtAmount, StateEditingAmount,
                            StateSubtractingFromDebt, StateSettingPaymentAmount,
                            StateEditingPaymentAmount}
          /\ ~FinitePositive(ev'.data))
         => /\ debtors' = debtors /\ debts' = debts
            /\ userStates'[c] = userStates[c]
            /\ currentDebtors'[c] = currentDebtors[c]
            /\ selectedDebts'[c] = selectedDebts[c]]_vars

\* C29: in every reachable state every debt of the ledger has a reason that is
\* not the empty text.
C29_NoEmptyReason == \A d \in debts : d.Reason # ""

\* the debtors that chats other than c own, and the debts of those debtors
DebtorsOfOthers(rows, c) == {d \in rows : d.ChatID # c}
DebtsOfOthers(rows, owners, c) ==
    {k \in rows : \E d \in DebtorsOfOthers(owners, c) : d.ID = k.DebtorID}

\* C30: an event of a chat (a command, a text, a button press with whatever
\* callback data) creates, changes and deletes no debtor that another chat
\* owns and no debt of such a debtor.
C30_NoCrossChatMutation ==
    [][\A c \in Chats :
         (ev'.chat = c /\ ev'.kind \in {"command", "text", "button"})
         => /\ DebtorsOfOthers(debtors', c) = DebtorsOfOthers(debtors, c)
            /\ DebtsOfOthers(debts', debtors, c) = DebtsOfOthers(debts, debtors, c)]_vars

\* C31: whenever an event has rendered the view of a debtor D to a chat, the
\* focused debtor of the chat after the event is D.
C31_ViewIsFocus ==
    (ev.kind \in {"command", "text", "button"} /\ ev.view # 0)
    => currentDebtors[ev.chat] # {} /\ CurDebtor(Mem, ev.chat).ID = ev.view

\* C32: whenever a chat is asked for the reason or for the amount of a new
\* debt, it has a focused debtor, and a debtor with the id in focus exists in
\* the ledger and is owned by the chat.
C32_AddingHasFocus ==
    \A c \in Chats :
      userStates[c] \in {StateAddingDebtReason, StateAddingDebtAmount}
      => /\ currentDebtors[c] # {}
         /\ \E d \in debtors : d.ID = CurDebtor(Mem, c).ID /\ d.ChatID = c

\* C33: whenever a chat is asked for the amount to subtract, the debt it has
\* in focus is a debt of the ledger as the ledger holds it now: the amount of
\* the copy is the amount of the debt.
C33_SubtractCopyIsCurrent ==
    \A c \in Chats :
      userStates[c] = StateSubtractingFromDebt
      => /\ selectedDebts[c] # {}
         /\ \E d \in debts : d.ID = SelDebt(Mem, c).ID /\ d.Amount = SelDebt(Mem, c).Amount

\* two outcomes of a handler agree for chat c: the ledger, the conversation
\* state, the focused debtor and the view rendered
SameOutcome(r1, r2, c) ==
    /\ r1.debtors = r2.debtors /\ r1.debts = r2.debts
    /\ r1.userStates[c] = r2.userStates[c]
    /\ r1.currentDebtors[c] = r2.currentDebtors[c]
    /\ r1.view = r2.view /\ r1.total = r2.total
    /\ r1.shown[c] = r2.shown[c]

\* C34: whenever a chat is asked for a payment date or for a payment amount,
\* the handler of the set state and the handler of the edit state do the same
\* with every text: the same change of the ledger, the same next state, the
\* same focused debtor and the same rendered view.
C34_SetAndEditAgree ==
    \A c \in Chats : \A text \in Texts :
      /\ userStates[c] \in {StateSettingPaymentDate, StateEditingPaymentDate}
         => SameOutcome(msgSettingPaymentDate(Mem, c, text, 0),
                        msgEditingPaymentDate(Mem, c, text, 0), c)
      /\ userStates[c] \in {StateSettingPaymentAmount, StateEditingPaymentAmount}
         => SameOutcome(msgSettingPaymentAmount(Mem, c, text, 0),
                        msgEditingPaymentAmount(Mem, c, text, 0), c)

\* C35: whenever the conversation state of a chat is Idle, the chat has no
\* focused debt.
C35_IdleHasNoFocusedDebt ==
    \A c \in Chats : userStates[c] = StateIdle => selectedDebts[c] = {}

\* a chat that had a debt in focus for a close was put back to Idle by cancel:
\* the debt is still in the ledger and no debt is in focus
C35_Witness ==
    /\ ev.kind = "button" /\ ev.data = "cancel_operation"
    /\ userStates[ev.chat] = StateIdle
    /\ selectedDebts[ev.chat] = {}
    /\ debts # {}

====
